---------------------------- MODULE Spec2Model ----------------------------
(***************************************************************************)
(* VulCNN data-preparation pipeline.                                       *)
(*                                                                         *)
(*   joern_graph_gen.py  : parse / export stages driven through a worker   *)
(*                         pool, with the record files parse_res.txt and   *)
(*                         export_res.txt                    (Spec)        *)
(*   ImageGeneration.py  : centrality / embedding fusion into a 3-channel  *)
(*                         tensor, one .pkl per graph        (SpecImage)   *)
(*   joern_export merge  : concatenation of PDG fragments    (SpecMerge)   *)
(*                                                                         *)
(* Text is modelled as a sequence of one-character strings, so that file   *)
(* offsets, splitlines, index, slicing and replace are computed as Python  *)
(* computes them.                                                          *)
(***************************************************************************)
EXTENDS Integers, Sequences, FiniteSets, TLC

----------------------------------------------------------------------------
(* Bounds *)

\* pipeline invocations (runs of main) in one behaviour
MaxRuns == 3
\* runs that may be killed before pool.map returns
MaxKills == 1
\* os.cpu_count() of the host: size of the worker pool
PoolNum == 2

----------------------------------------------------------------------------
(* Text helpers *)

NL == "\n"

\* Python's None, as returned by run_subprocess on failure
None == "None"

Max(a, b) == IF a >= b THEN a ELSE b

Range(f) == {f[i] : i \in DOMAIN f}

\* str.splitlines(): the lines of a text, line ends removed, no trailing
\* empty line after a final newline
RECURSIVE SplitFrom(_, _, _)
SplitFrom(text, i, cur) ==
    IF i > Len(text) THEN (IF cur = <<>> THEN <<>> ELSE <<cur>>)
    ELSE IF text[i] = NL THEN <<cur>> \o SplitFrom(text, i + 1, <<>>)
    ELSE SplitFrom(text, i + 1, Append(cur, text[i]))

splitlines(text) == SplitFrom(text, 1, <<>>)

\* f.write(data) on a file opened "r+" whose position is off: the bytes at
\* off .. off+len(data)-1 are overwritten, the file grows if needed
WriteAt(file, offset, data) ==
    [i \in 1..Max(Len(file), offset + Len(data)) |->
        IF i > offset /\ i <= offset + Len(data) THEN data[i - offset]
        ELSE file[i]]

Min(S) == CHOOSE x \in S : \A y \in S : x <= y

\* pat occurs in text at position i (1-based)
StartsAt(text, pat, i) ==
    /\ i >= 1
    /\ i + Len(pat) - 1 <= Len(text)
    /\ \A k \in 1..Len(pat) : text[i + k - 1] = pat[k]

\* str.find: the first position (1-based) of pat in text, 0 when absent
Find(text, pat) ==
    LET hits == {i \in 1..Len(text) : StartsAt(text, pat, i)}
    IN IF hits = {} THEN 0 ELSE Min(hits)

\* str.rfind: the last position (1-based) of pat in text, 0 when absent
RFind(text, pat) ==
    LET hits == {i \in 1..Len(text) : StartsAt(text, pat, i)}
    IN IF hits = {} THEN 0 ELSE CHOOSE x \in hits : \A y \in hits : y <= x

\* str.replace(old, new, count): the first count occurrences, left to right,
\* not overlapping; count = -1 replaces all
RECURSIVE replace(_, _, _, _)
replace(text, old, new, count) ==
    LET p == Find(text, old)
    IN IF p = 0 \/ count = 0 THEN text
       ELSE SubSeq(text, 1, p - 1) \o new
            \o replace(SubSeq(text, p + Len(old), Len(text)), old, new,
                       count - 1)

\* str.split(sep)[0]: the text before the first sep, all of it without one
SplitFirst(text, sep) ==
    LET p == Find(text, sep)
    IN IF p = 0 THEN text ELSE SubSeq(text, 1, p - 1)

\* str.rsplit(sep, 1)[0]: the text before the last sep, all of it without one
RSplitFirst(text, sep) ==
    LET p == RFind(text, sep)
    IN IF p = 0 THEN text ELSE SubSeq(text, 1, p - 1)

\* a slice bound as Python normalises it: negative counts from the end, then
\* clamped to 0..len
SliceBound(n, len) ==
    LET m == IF n < 0 THEN n + len ELSE n
    IN IF m < 0 THEN 0 ELSE IF m > len THEN len ELSE m

\* text[lo:hi] with 0-based bounds
Slice(text, lo, hi) ==
    SubSeq(text, SliceBound(lo, Len(text)) + 1, SliceBound(hi, Len(text)))

\* occurrences of pat in text
Count(text, pat) == Cardinality({i \in 1..Len(text) : StartsAt(text, pat, i)})

----------------------------------------------------------------------------
(* joern_graph_gen.py: the input set *)

StemA == <<"a">>
StemB == <<"b", "b">>

\* stems of the *.c files of the input directory
Stems == {StemA, StemB}

Stages == {"parse", "export"}
Reprs == {"pdg", "lineinfo_json"}

VARIABLES
    run,        \* the running invocation of main: type, repr, files, script
    runs,       \* invocations started so far
    kills,      \* invocations killed so far
    pc,         \* per stem: position of its process_file call in the pool
    offset,     \* per stem: position of its record file object after f.read()
    ret,        \* per stem: value returned by process_func
    parse_res,  \* content of parse_res.txt
    export_res, \* content of export_res.txt
    bin,        \* per stem: <outdir>/<stem>.bin
    outp,       \* per stem: <outdir>/<stem>, the path given to joern-export
    merged,     \* per stem: <outdir>/<stem>.dot, the merged PDG
    json,       \* per stem: <outdir>/<stem>.json
    atStart,    \* history: stems whose stage artifact existed at run start
    invoked,    \* history: stems whose external tool was invoked in this run
    failedNow,  \* history: stems whose tool exited non-zero in this run
    failedPrev, \* history: per stage, the same for the previous finished run
    work,       \* history: this run invoked a tool or wrote a file
    prev,       \* history: the immediately preceding run, if it finished
    toolOk      \* history: per stage, stems whose tool has exited with zero

pipeVars == <<run, runs, kills, pc, offset, ret, parse_res, export_res, bin,
              outp, merged, json, atStart, invoked, failedNow, failedPrev,
              work, prev, toolOk>>

\* ImageGeneration.py
VARIABLES
    dots,           \* per stem: the graph its .dot file holds
    pkl,            \* per stem: <out>/<stem>.pkl, and the tuple pickled
    imain,          \* position of main
    iruns,          \* invocations started so far
    model,          \* the sent2vec model: unloaded, loaded, released
    existing_files, \* process_files: stems of the .pkl files found
    itask,          \* per stem: position of its write_to_pkl call
    raised,         \* an exception has escaped pool.map
    attempted,      \* history: stems image_generation was called for, this run
    ioFailed,       \* history: writing a .pkl failed in this run
    loads,          \* history: calls of load_model in this execution
    releases        \* history: calls of release_shared_mem in this execution

imgVars == <<dots, pkl, imain, iruns, model, existing_files, itask, raised,
             attempted, ioFailed, loads, releases>>

\* joern_export, the merge of one stem's fragments
VARIABLES
    pdg_files,  \* list(out_file.glob("*.dot")): the content of each fragment
    outfile,    \* content of the merged file
    mpos        \* fragments written; -1 before the open, one more than
                \* their number once the file is closed

mergeVars == <<pdg_files, outfile, mpos>>

\* joern_graph_gen.py, one process_file call of the export stage
VARIABLES
    tool,       \* what the external tool does when run: exit status, stdout,
                \* stderr, what it leaves at <outdir>/<stem>; and whether
                \* graph-for-funcs.sc exists and reading a fragment raises
    cstep,      \* position of the call: start, returned, done
    cret,       \* value returned by joern_export
    crec        \* content of export_res.txt

callVars == <<tool, cstep, cret, crec>>

\* the artifact paths the stages derive from two source files
VARIABLES
    units,      \* the names of two files of the input directory
    pstage,     \* per unit: stages whose paths have been derived, 0..3
    paths       \* per unit: the file names derived so far

pathVars == <<units, pstage, paths>>

\* normalization.py
VARIABLES
    nfiles,       \* per regular file of the input directory: its content
    norig,        \* history: the content each file had before the walk
    nvisited,     \* entries the loop over rglob("*") has taken
    npc,          \* position of normalize / process_file
    ncur,         \* process_file: file_path
    ncode,        \* process_file: code, the text read
    cleaned_code, \* process_file: the lines returned by clean_gadget
    ncalled,      \* history: files process_file was called for
    nfailed       \* history: per file, the position at which its
                  \* process_file raised, "no" when it did not

normVars == <<nfiles, norig, nvisited, npc, ncur, ncode, cleaned_code,
              ncalled, nfailed>>

\* the variables of the single-call and single-function specifications
auxVars == <<callVars, pathVars, normVars>>

NoRun == [type |-> "none", repr |-> "pdg", files |-> {}, script |-> TRUE]
NoPrev == [type |-> "none", repr |-> "pdg", clean |-> FALSE]

Record(stage) == IF stage = "parse" THEN parse_res ELSE export_res

\* set(f.read().splitlines())
processed_files(stage) == Range(splitlines(Record(stage)))

\* the output artifact of a stage for a stem
Artifact(stage, repr, s) ==
    IF stage = "parse" THEN bin[s] # "absent"
    ELSE IF repr = "pdg" THEN merged[s] # "absent" \/ outp[s] = "file"
    ELSE json[s] # "absent"

Busy == {s \in Stems : pc[s] \notin {"idle", "todo", "done"}}

PipeInit ==
    /\ run = NoRun
    /\ runs = 0
    /\ kills = 0
    /\ pc = [s \in Stems |-> "idle"]
    /\ offset = [s \in Stems |-> 0]
    /\ ret = [s \in Stems |-> FALSE]
    /\ parse_res = <<>>
    /\ export_res = <<>>
    /\ bin = [s \in Stems |-> "absent"]
    /\ outp = [s \in Stems |-> "absent"]
    /\ merged = [s \in Stems |-> "absent"]
    /\ json = [s \in Stems |-> "absent"]
    /\ atStart = {}
    /\ invoked = {}
    /\ failedNow = {}
    /\ failedPrev = [st \in Stages |-> {}]
    /\ work = FALSE
    /\ prev = NoPrev
    /\ toolOk = [st \in Stages |-> {}]


----------------------------------------------------------------------------
(* joern_graph_gen.py: run_subprocess *)

\* run_subprocess: stdout of the command when it exits with status zero,
\* None when subprocess.run raises CalledProcessError or anything else
run_subprocess(exit, stdout) ==
    IF exit = "zero" THEN stdout ELSE None

\* truth value of an Optional[str]: None and the empty string are false
Truthy(result) == result # None /\ result # ""

\* joern_parse, line 156: the test made on run_subprocess's result
ParseSucceeded(result) == result # None

\* joern_export, lines 178 and 233: the test made on run_subprocess's result
ExportSucceeded(result) == Truthy(result)

Exits == {"zero", "nonzero"}
Stdouts == {"", "text"}

----------------------------------------------------------------------------
(* joern_graph_gen.py: main, process_file, joern_parse, joern_export *)

\* main: one invocation with --type and --repr; the work list is the glob of
\* the input directory, every item is handed to the pool
Main(type, repr, script) ==
    /\ run.type = "none"
    /\ runs < MaxRuns
    /\ type = "parse" => repr = "pdg" /\ script
    /\ repr = "pdg" => script
    /\ LET files == IF type = "parse" THEN Stems
                    ELSE {s \in Stems : bin[s] # "absent"}
       IN /\ run' = [type |-> type, repr |-> repr, files |-> files,
                     script |-> script]
          /\ pc' = [s \in Stems |-> IF s \in files THEN "todo" ELSE "idle"]
          /\ atStart' = {s \in files : Artifact(type, repr, s)}
    /\ runs' = runs + 1
    /\ ret' = [s \in Stems |-> FALSE]
    /\ invoked' = {}
    /\ failedNow' = {}
    /\ work' = FALSE
    /\ UNCHANGED <<kills, offset, parse_res, export_res, bin, outp, merged,
                   json, failedPrev, prev, toolOk>>
    /\ UNCHANGED <<imgVars, mergeVars, auxVars>>

\* the line process_file writes for a stem
RecordLine(s) == s \o <<NL>>

\* a pool worker is free to take the next item
PoolFree == Cardinality(Busy) < PoolNum

\* process_file, lines 122-127: the stem is in the record, nothing is done
ProcessFileSkip(s) ==
    /\ run.type # "none"
    /\ pc[s] = "todo"
    /\ PoolFree
    /\ s \in processed_files(run.type)
    /\ pc' = [pc EXCEPT ![s] = "done"]
    /\ ret' = [ret EXCEPT ![s] = TRUE]
    /\ UNCHANGED <<run, runs, kills, offset, parse_res, export_res, bin, outp,
                   merged, json, atStart, invoked, failedNow, failedPrev,
                   work, prev, toolOk>>
    /\ UNCHANGED <<imgVars, mergeVars, auxVars>>

\* joern_parse, lines 142-144: the output file exists, True without a tool
JoernParseExists(s) ==
    /\ run.type = "parse"
    /\ pc[s] = "todo"
    /\ PoolFree
    /\ s \notin processed_files("parse")
    /\ bin[s] # "absent"
    /\ offset' = [offset EXCEPT ![s] = Len(parse_res)]
    /\ ret' = [ret EXCEPT ![s] = TRUE]
    /\ pc' = [pc EXCEPT ![s] = "ret"]
    /\ UNCHANGED <<run, runs, kills, parse_res, export_res, bin, outp, merged,
                   json, atStart, invoked, failedNow, failedPrev, work, prev,
                   toolOk>>
    /\ UNCHANGED <<imgVars, mergeVars, auxVars>>

\* joern_parse, lines 146-156: joern-parse is started; it may create its
\* output file before it has finished writing it
JoernParseInvoke(s, creates) ==
    /\ run.type = "parse"
    /\ pc[s] = "todo"
    /\ PoolFree
    /\ s \notin processed_files("parse")
    /\ bin[s] = "absent"
    /\ offset' = [offset EXCEPT ![s] = Len(parse_res)]
    /\ pc' = [pc EXCEPT ![s] = "tool"]
    /\ bin' = [bin EXCEPT ![s] = IF creates THEN "partial" ELSE "absent"]
    /\ invoked' = invoked \cup {s}
    /\ work' = TRUE
    /\ UNCHANGED <<run, runs, kills, ret, parse_res, export_res, outp, merged,
                   json, atStart, failedNow, failedPrev, prev, toolOk>>
    /\ UNCHANGED <<imgVars, mergeVars, auxVars>>

\* joern-parse exits; run_subprocess returns and joern_parse returns
JoernParseExit(s, exit, stdout) ==
    /\ run.type = "parse"
    /\ pc[s] = "tool"
    /\ bin' = [bin EXCEPT ![s] = IF exit = "zero" THEN "complete" ELSE @]
    /\ ret' = [ret EXCEPT ![s] = ParseSucceeded(run_subprocess(exit, stdout))]
    /\ pc' = [pc EXCEPT ![s] = "ret"]
    /\ toolOk' = IF exit = "zero"
                 THEN [toolOk EXCEPT !["parse"] = @ \cup {s}] ELSE toolOk
    /\ failedNow' = IF exit = "zero" THEN failedNow ELSE failedNow \cup {s}
    /\ UNCHANGED <<run, runs, kills, offset, parse_res, export_res, outp,
                   merged, json, atStart, invoked, failedPrev, work, prev>>
    /\ UNCHANGED <<imgVars, mergeVars, auxVars>>

\* joern_export, lines 163-176 (pdg) and 220-231 (lineinfo_json): the tool is
\* started whatever is on disk; the script must exist for lineinfo_json
JoernExportInvoke(s) ==
    /\ run.type = "export"
    /\ pc[s] = "todo"
    /\ PoolFree
    /\ s \notin processed_files("export")
    /\ run.script
    /\ offset' = [offset EXCEPT ![s] = Len(export_res)]
    /\ pc' = [pc EXCEPT ![s] = "tool"]
    /\ invoked' = invoked \cup {s}
    /\ work' = TRUE
    /\ UNCHANGED <<run, runs, kills, ret, parse_res, export_res, bin, outp,
                   merged, json, atStart, failedNow, failedPrev, prev, toolOk>>
    /\ UNCHANGED <<imgVars, mergeVars, auxVars>>

\* joern_export, lines 222-224: graph-for-funcs.sc is missing
JoernExportNoScript(s) ==
    /\ run.type = "export"
    /\ pc[s] = "todo"
    /\ PoolFree
    /\ s \notin processed_files("export")
    /\ ~run.script
    /\ offset' = [offset EXCEPT ![s] = Len(export_res)]
    /\ ret' = [ret EXCEPT ![s] = FALSE]
    /\ pc' = [pc EXCEPT ![s] = "ret"]
    /\ UNCHANGED <<run, runs, kills, parse_res, export_res, bin, outp, merged,
                   json, atStart, invoked, failedNow, failedPrev, work, prev,
                   toolOk>>
    /\ UNCHANGED <<imgVars, mergeVars, auxVars>>

\* what joern-export leaves at <outdir>/<stem>
ExportEffects(exit) ==
    IF exit = "zero" THEN {"frags", "emptydir", "file"} ELSE {"keep"}

\* joern-export --repr pdg exits; joern_export, lines 178-181 and 210-218
JoernExportPdgExit(s, exit, stdout, effect) ==
    /\ run.type = "export"
    /\ run.repr = "pdg"
    /\ pc[s] = "tool"
    /\ effect \in ExportEffects(exit)
    /\ LET out == IF effect = "keep" THEN outp[s] ELSE effect
           ok == ExportSucceeded(run_subprocess(exit, stdout))
       IN /\ outp' = [outp EXCEPT ![s] = out]
          /\ IF ok /\ out = "frags"
             THEN /\ pc' = [pc EXCEPT ![s] = "merge"]
                  /\ ret' = ret
             ELSE /\ pc' = [pc EXCEPT ![s] = "ret"]
                  /\ ret' = [ret EXCEPT ![s] =
                                ok /\ out \notin {"frags", "emptydir"}]
    /\ toolOk' = IF exit = "zero"
                 THEN [toolOk EXCEPT !["export"] = @ \cup {s}] ELSE toolOk
    /\ failedNow' = IF exit = "zero" THEN failedNow ELSE failedNow \cup {s}
    /\ work' = TRUE
    /\ UNCHANGED <<run, runs, kills, offset, parse_res, export_res, bin,
                   merged, json, atStart, invoked, failedPrev, prev>>
    /\ UNCHANGED <<imgVars, mergeVars, auxVars>>

\* a joern_export that has process_file write the stem's line before the
\* merge instead of after it
MergeOpenRecordsFirst(s) ==
    /\ pc[s] = "merge"
    /\ merged' = [merged EXCEPT ![s] = "partial"]
    /\ pc' = [pc EXCEPT ![s] = "merging"]
    /\ export_res' = WriteAt(export_res, offset[s], RecordLine(s))
    /\ UNCHANGED <<run, runs, kills, offset, ret, parse_res, bin, outp, json,
                   atStart, invoked, failedNow, failedPrev, work, prev,
                   toolOk>>
    /\ UNCHANGED <<imgVars, mergeVars, auxVars>>

\* joern_export, lines 182-186: the merged file is opened "w" (created or
\* truncated) and the top-level header written
MergeOpen(s) ==
    /\ pc[s] = "merge"
    /\ merged' = [merged EXCEPT ![s] = "partial"]
    /\ pc' = [pc EXCEPT ![s] = "merging"]
    /\ UNCHANGED <<run, runs, kills, offset, ret, parse_res, export_res, bin,
                   outp, json, atStart, invoked, failedNow, failedPrev, work,
                   prev, toolOk>>
    /\ UNCHANGED <<imgVars, mergeVars, auxVars>>

\* joern_export, lines 187-198 and 207-209: every fragment is copied and the
\* file closed, or reading a fragment raises and False is returned
MergeWrite(s, ioerror) ==
    /\ pc[s] = "merging"
    /\ IF ioerror
       THEN /\ pc' = [pc EXCEPT ![s] = "ret"]
            /\ ret' = [ret EXCEPT ![s] = FALSE]
            /\ merged' = merged
       ELSE /\ pc' = [pc EXCEPT ![s] = "rmtree"]
            /\ ret' = ret
            /\ merged' = [merged EXCEPT ![s] = "complete"]
    /\ UNCHANGED <<run, runs, kills, offset, parse_res, export_res, bin, outp,
                   json, atStart, invoked, failedNow, failedPrev, work, prev,
                   toolOk>>
    /\ UNCHANGED <<imgVars, mergeVars, auxVars>>

\* joern_export, lines 201-206: the fragment directory is deleted
Rmtree(s) ==
    /\ pc[s] = "rmtree"
    /\ outp' = [outp EXCEPT ![s] = "absent"]
    /\ ret' = [ret EXCEPT ![s] = TRUE]
    /\ pc' = [pc EXCEPT ![s] = "ret"]
    /\ UNCHANGED <<run, runs, kills, offset, parse_res, export_res, bin,
                   merged, json, atStart, invoked, failedNow, failedPrev,
                   work, prev, toolOk>>
    /\ UNCHANGED <<imgVars, mergeVars, auxVars>>

\* joern --script exits; joern_export, lines 233-238
JoernExportJsonExit(s, exit, stdout) ==
    /\ run.type = "export"
    /\ run.repr = "lineinfo_json"
    /\ pc[s] = "tool"
    /\ json' = [json EXCEPT ![s] = IF exit = "zero" THEN "complete" ELSE @]
    /\ ret' = [ret EXCEPT ![s] = ExportSucceeded(run_subprocess(exit, stdout))]
    /\ pc' = [pc EXCEPT ![s] = "ret"]
    /\ toolOk' = IF exit = "zero"
                 THEN [toolOk EXCEPT !["export"] = @ \cup {s}] ELSE toolOk
    /\ failedNow' = IF exit = "zero" THEN failedNow ELSE failedNow \cup {s}
    /\ UNCHANGED <<run, runs, kills, offset, parse_res, export_res, bin, outp,
                   merged, atStart, invoked, failedPrev, work, prev>>
    /\ UNCHANGED <<imgVars, mergeVars, auxVars>>

\* process_file, lines 129-131 and the close of the with block: on True the
\* stem's line is written at the position the file object reached by reading
ProcessFileWrite(s) ==
    /\ pc[s] = "ret"
    /\ LET new == IF ret[s]
                  THEN WriteAt(Record(run.type), offset[s], RecordLine(s))
                  ELSE Record(run.type)
       IN /\ parse_res' = IF run.type = "parse" THEN new ELSE parse_res
          /\ export_res' = IF run.type = "export" THEN new ELSE export_res
          /\ work' = (work \/ new # Record(run.type))
    /\ pc' = [pc EXCEPT ![s] = "done"]
    /\ UNCHANGED <<run, runs, kills, offset, ret, bin, outp, merged, json,
                   atStart, invoked, failedNow, failedPrev, prev, toolOk>>
    /\ UNCHANGED <<imgVars, mergeVars, auxVars>>

\* main, lines 264-305: pool.map has returned for every item; the workers'
\* file objects and return values are gone with the invocation
PoolDone ==
    /\ run.type # "none"
    /\ \A s \in run.files : pc[s] = "done"
    /\ prev' = [type |-> run.type, repr |-> run.repr,
                clean |-> \A s \in run.files : ret[s]]
    /\ failedPrev' = [failedPrev EXCEPT ![run.type] = failedNow]
    /\ run' = NoRun
    /\ pc' = [s \in Stems |-> "idle"]
    /\ offset' = [s \in Stems |-> 0]
    /\ ret' = [s \in Stems |-> FALSE]
    /\ atStart' = {}
    /\ invoked' = {}
    /\ failedNow' = {}
    /\ work' = FALSE
    /\ UNCHANGED <<runs, kills, parse_res, export_res, bin, outp, merged,
                   json, toolOk>>
    /\ UNCHANGED <<imgVars, mergeVars, auxVars>>

\* the process group is killed: workers and tools stop where they are, what
\* is on disk stays
Kill ==
    /\ run.type # "none"
    /\ kills < MaxKills
    /\ kills' = kills + 1
    /\ prev' = NoPrev
    /\ failedPrev' = [failedPrev EXCEPT ![run.type] = {}]
    /\ run' = NoRun
    /\ pc' = [s \in Stems |-> "idle"]
    /\ offset' = [s \in Stems |-> 0]
    /\ ret' = [s \in Stems |-> FALSE]
    /\ atStart' = {}
    /\ invoked' = {}
    /\ failedNow' = {}
    /\ work' = FALSE
    /\ UNCHANGED <<runs, parse_res, export_res, bin, outp, merged, json,
                   toolOk>>
    /\ UNCHANGED <<imgVars, mergeVars, auxVars>>

PipeNext ==
    \/ \E type \in Stages, repr \in Reprs, script \in BOOLEAN :
          Main(type, repr, script)
    \/ \E s \in Stems : ProcessFileSkip(s)
    \/ \E s \in Stems : JoernParseExists(s)
    \/ \E s \in Stems, creates \in BOOLEAN : JoernParseInvoke(s, creates)
    \/ \E s \in Stems, exit \in Exits, stdout \in Stdouts :
          JoernParseExit(s, exit, stdout)
    \/ \E s \in Stems : JoernExportInvoke(s)
    \/ \E s \in Stems : JoernExportNoScript(s)
    \/ \E s \in Stems, exit \in Exits, stdout \in Stdouts,
          effect \in {"frags", "emptydir", "file", "keep"} :
          JoernExportPdgExit(s, exit, stdout, effect)
    \/ \E s \in Stems : MergeOpen(s)
    \/ \E s \in Stems, ioerror \in BOOLEAN : MergeWrite(s, ioerror)
    \/ \E s \in Stems : Rmtree(s)
    \/ \E s \in Stems, exit \in Exits, stdout \in Stdouts :
          JoernExportJsonExit(s, exit, stdout)
    \/ \E s \in Stems : ProcessFileWrite(s)
    \/ PoolDone
    \/ Kill

----------------------------------------------------------------------------
(* joern_graph_gen.py: one export call, with everything the tool reports *)

Stderrs == {"", "warning"}

\* the runs of the external export tool: subprocess.run captures exit status,
\* stdout and stderr; a run that exits zero leaves fragments, an empty
\* directory or one file at <outdir>/<stem> (pdg) or the .json file
ToolRuns ==
    {t \in [repr : Reprs, script : BOOLEAN, exit : Exits, stdout : Stdouts,
            stderr : Stderrs, effect : {"frags", "emptydir", "file", "none"},
            ioerror : BOOLEAN] :
        /\ t.repr = "pdg" => t.script
        /\ t.exit = "nonzero" => t.effect = "none"
        /\ (t.exit = "zero" /\ t.repr = "pdg") => t.effect # "none"
        /\ (t.exit = "zero" /\ t.repr = "lineinfo_json") => t.effect = "file"
        /\ t.ioerror => t.effect = "frags"}

\* joern_export: the value returned for one run of the tool
joern_export(t) ==
    IF t.repr = "pdg"
    THEN IF ExportSucceeded(run_subprocess(t.exit, t.stdout))
         THEN IF t.effect \in {"frags", "emptydir"}
              THEN t.effect = "frags" /\ ~t.ioerror
              ELSE TRUE
         ELSE FALSE
    ELSE IF ~t.script
         THEN FALSE
         ELSE ExportSucceeded(run_subprocess(t.exit, t.stdout))

CallIdle ==
    /\ tool = CHOOSE t \in ToolRuns : TRUE
    /\ cstep = "idle"
    /\ cret = FALSE
    /\ crec = <<>>

\* export_res.txt before the call: empty, or holding a stem of an earlier run
CallInit ==
    /\ tool \in ToolRuns
    /\ cstep = "start"
    /\ cret = FALSE
    /\ crec \in {<<>>, RecordLine(StemB), RecordLine(StemA)}

\* process_file, lines 122-127: the stem is in the record
CallSkip ==
    /\ cstep = "start"
    /\ StemA \in Range(splitlines(crec))
    /\ cstep' = "skipped"
    /\ UNCHANGED <<tool, cret, crec>>
    /\ UNCHANGED <<pipeVars, imgVars, mergeVars, pathVars, normVars>>

\* process_file, line 129: process_func is called and returns
CallJoernExport ==
    /\ cstep = "start"
    /\ StemA \notin Range(splitlines(crec))
    /\ cret' = joern_export(tool)
    /\ cstep' = "returned"
    /\ UNCHANGED <<tool, crec>>
    /\ UNCHANGED <<pipeVars, imgVars, mergeVars, pathVars, normVars>>

\* process_file, lines 129-131: the stem is written after what was read
CallRecord ==
    /\ cstep = "returned"
    /\ crec' = IF cret THEN WriteAt(crec, Len(crec), RecordLine(StemA))
               ELSE crec
    /\ cstep' = "done"
    /\ UNCHANGED <<tool, cret>>
    /\ UNCHANGED <<pipeVars, imgVars, mergeVars, pathVars, normVars>>

CallNext == CallSkip \/ CallJoernExport \/ CallRecord

----------------------------------------------------------------------------
(* pathlib as the three stages use it: stem, suffix, with_suffix *)

Dot == <<".">>

\* PurePath.suffix: from the last dot of the name, when that dot is neither
\* the first nor the last character; empty otherwise
path_suffix(name) ==
    LET p == RFind(name, Dot)
    IN IF p > 1 /\ p < Len(name) THEN SubSeq(name, p, Len(name)) ELSE <<>>

\* PurePath.stem: the name without its suffix
path_stem(name) == SubSeq(name, 1, Len(name) - Len(path_suffix(name)))

\* PurePath.with_suffix: the suffix replaced, or added when there is none
with_suffix(name, suffix) == path_stem(name) \o suffix

\* the *.c files main may find in the input directory
FileNames ==
    { <<"a", ".", "c">>, <<"b", ".", "c">>,
      <<"a", ".", "b", ".", "c">>, <<"a", ".", "x", ".", "c">>,
      <<"b", ".", "a", ".", "c">>, <<"a", "b", ".", "c">> }

NoPaths == [bin |-> <<>>, out |-> <<>>, merged |-> <<>>, json |-> <<>>,
            pkl |-> <<>>]

PathIdle ==
    /\ units = <<CHOOSE n \in FileNames : TRUE, CHOOSE n \in FileNames : TRUE>>
    /\ pstage = <<3, 3>>
    /\ paths = <<NoPaths, NoPaths>>

PathInit ==
    /\ units \in FileNames \X FileNames
    /\ pstage = <<0, 0>>
    /\ paths = <<NoPaths, NoPaths>>

\* joern_parse, lines 138-140: out_file = outdir / f"{file.stem}.bin"
PathParse(i) ==
    /\ pstage[i] = 0
    /\ paths' = [paths EXCEPT ![i].bin =
                    path_stem(units[i]) \o <<".", "b", "i", "n">>]
    /\ pstage' = [pstage EXCEPT ![i] = 1]
    /\ UNCHANGED units
    /\ UNCHANGED <<pipeVars, imgVars, mergeVars, callVars, normVars>>

\* joern_export, lines 164-165, 182 and 220: out_file = outdir / bin_file.stem,
\* merged_dot = out_file.with_suffix(".dot"), out_file.with_suffix(".json")
PathExport(i) ==
    /\ pstage[i] = 1
    /\ LET out_file == path_stem(paths[i].bin)
       IN paths' = [paths EXCEPT
                      ![i].out = out_file,
                      ![i].merged = with_suffix(out_file, <<".", "d", "o", "t">>),
                      ![i].json =
                          with_suffix(out_file, <<".", "j", "s", "o", "n">>)]
    /\ pstage' = [pstage EXCEPT ![i] = 2]
    /\ UNCHANGED units
    /\ UNCHANGED <<pipeVars, imgVars, mergeVars, callVars, normVars>>

\* write_to_pkl, lines 85 and 94: out_pkl = out_dir / f"{Path(dot_file).stem}.pkl"
PathImage(i) ==
    /\ pstage[i] = 2
    /\ paths' = [paths EXCEPT ![i].pkl =
                    path_stem(paths[i].merged) \o <<".", "p", "k", "l">>]
    /\ pstage' = [pstage EXCEPT ![i] = 3]
    /\ UNCHANGED units
    /\ UNCHANGED <<pipeVars, imgVars, mergeVars, callVars, normVars>>

PathNext == \E i \in 1..2 : PathParse(i) \/ PathExport(i) \/ PathImage(i)

----------------------------------------------------------------------------
(* normalization.py: remove_comments *)

Slashes == <<"/", "/">>
BlockOpen == <<"/", "*">>
BlockClose == <<"*", "/">>
Whitespace == {" ", "\n", "\t", "\r"}

\* re.sub(r"(?<!:)//.*", "", code) from position i on: a // not preceded by
\* a colon is removed with the rest of its line, the line end is kept
RECURSIVE RemoveLineComments(_, _)
RemoveLineComments(text, i) ==
    IF i > Len(text) THEN <<>>
    ELSE IF StartsAt(text, Slashes, i) /\ (i = 1 \/ text[i - 1] # ":")
    THEN LET ends == {j \in i..Len(text) : text[j] = NL}
             stop == IF ends = {} THEN Len(text) + 1 ELSE Min(ends)
         IN RemoveLineComments(text, stop)
    ELSE <<text[i]>> \o RemoveLineComments(text, i + 1)

\* re.sub(r"/\*[\s\S]*?\*/", "", code) from position i on: a /* is removed up
\* to the first */ that follows it; without one it stays
RECURSIVE RemoveBlockComments(_, _)
RemoveBlockComments(text, i) ==
    IF i > Len(text) THEN <<>>
    ELSE LET closes == {j \in (i + 2)..Len(text) :
                           StartsAt(text, BlockClose, j)}
         IN IF StartsAt(text, BlockOpen, i) /\ closes # {}
            THEN RemoveBlockComments(text, Min(closes) + 2)
            ELSE <<text[i]>> \o RemoveBlockComments(text, i + 1)

\* str.strip(): leading and trailing whitespace removed
strip(text) ==
    LET keep == {i \in 1..Len(text) : text[i] \notin Whitespace}
    IN IF keep = {} THEN <<>>
       ELSE SubSeq(text, Min(keep),
                   CHOOSE x \in keep : \A y \in keep : y <= x)

remove_comments(text) ==
    strip(RemoveBlockComments(RemoveLineComments(text, 1), 1))

\* "\n".join(lines)
RECURSIVE join(_)
join(lines) ==
    IF lines = <<>> THEN <<>>
    ELSE IF Len(lines) = 1 THEN lines[1]
    ELSE lines[1] \o <<NL>> \o join(Tail(lines))

\* clean_gadget, the canonicalization collaborator: an ordered sequence of
\* lines in, an ordered sequence of lines out, here with the name x mapped
\* to its canonical form or with nothing to rename
clean_gadget(lines, renames) ==
    [k \in 1..Len(lines) |->
        IF renames THEN replace(lines[k], <<"x">>, <<"V", "1">>, -1)
        ELSE lines[k]]

----------------------------------------------------------------------------
(* normalization.py: normalize, process_file *)

\* the input directory: regular files of several extensions and of none,
\* at three depths, and two subdirectories
Children(dir) ==
    CASE dir = "in" -> {"in/a.c", "in/d"}
      [] dir = "in/d" -> {"in/d/b.txt", "in/d/e"}
      [] dir = "in/d/e" -> {"in/d/e/README"}
      [] OTHER -> {}

Dirs == {"in", "in/d", "in/d/e"}
RegularFiles == {"in/a.c", "in/d/b.txt", "in/d/e/README"}

\* Path.is_file()
is_file(e) == e \in RegularFiles

\* directory.rglob("*"): every entry below the directory, at any depth
RECURSIVE rglob(_)
rglob(dir) ==
    Children(dir) \cup UNION {rglob(c) : c \in Children(dir) \cap Dirs}

\* texts a source file may hold
TextLineComment == <<"x", "/", "/", "c", "\n", "y">>
TextBlockComment == <<"x", "/", "*", "b", "\n", "c", "*", "/", "\n">>
TextUrl == <<"u", ":", "/", "/", "v">>
TextSamples == {TextLineComment, TextBlockComment, TextUrl}

NoPath == "none"

NormIdle ==
    /\ nfiles = [f \in RegularFiles |-> TextUrl]
    /\ norig = nfiles
    /\ nvisited = rglob("in")
    /\ npc = "loop"
    /\ ncur = NoPath
    /\ ncode = <<>>
    /\ cleaned_code = <<>>
    /\ ncalled = {}
    /\ nfailed = [f \in RegularFiles |-> "no"]

NormInit ==
    /\ nfiles \in [RegularFiles -> TextSamples]
    /\ norig = nfiles
    /\ nvisited = {}
    /\ npc = "loop"
    /\ ncur = NoPath
    /\ ncode = <<>>
    /\ cleaned_code = <<>>
    /\ ncalled = {}
    /\ nfailed = [f \in RegularFiles |-> "no"]

\* normalize, lines 62-63: the next entry is not a regular file
NormalizeSkip(e) ==
    /\ npc = "loop"
    /\ e \in rglob("in") \ nvisited
    /\ ~is_file(e)
    /\ nvisited' = nvisited \cup {e}
    /\ UNCHANGED <<nfiles, norig, npc, ncur, ncode, cleaned_code, ncalled,
                   nfailed>>
    /\ UNCHANGED <<pipeVars, imgVars, mergeVars, callVars, pathVars>>

\* normalize, lines 62-64: process_file is called for a regular file
NormalizeCall(e) ==
    /\ npc = "loop"
    /\ e \in rglob("in") \ nvisited
    /\ is_file(e)
    /\ nvisited' = nvisited \cup {e}
    /\ ncalled' = ncalled \cup {e}
    /\ ncur' = e
    /\ npc' = "try"
    /\ UNCHANGED <<nfiles, norig, ncode, cleaned_code, nfailed>>
    /\ UNCHANGED <<pipeVars, imgVars, mergeVars, callVars, pathVars>>

\* process_file without its try / except: the exception leaves normalize
ExceptUncaught ==
    /\ npc' = "raised"
    /\ nfailed' = [nfailed EXCEPT ![ncur] = npc]
    /\ ncur' = NoPath
    /\ ncode' = <<>>
    /\ cleaned_code' = <<>>

\* process_file, lines 56-57: the exception is printed, the call returns
Except ==
    /\ npc' = "loop"
    /\ nfailed' = [nfailed EXCEPT ![ncur] = npc]
    /\ ncur' = NoPath
    /\ ncode' = <<>>
    /\ cleaned_code' = <<>>

\* the read of a file opened "w+": the file is truncated when it is opened
ReadFileTruncating(raises) ==
    /\ npc = "try"
    /\ IF raises
       THEN Except
       ELSE /\ ncode' = <<>>
            /\ npc' = "read"
            /\ UNCHANGED <<ncur, cleaned_code, nfailed>>
    /\ nfiles' = IF raises THEN nfiles ELSE [nfiles EXCEPT ![ncur] = <<>>]
    /\ UNCHANGED <<norig, nvisited, ncalled>>
    /\ UNCHANGED <<pipeVars, imgVars, mergeVars, callVars, pathVars>>

\* process_file, lines 43-44: the file is opened for reading and read
ReadFile(raises) ==
    /\ npc = "try"
    /\ IF raises
       THEN Except
       ELSE /\ ncode' = nfiles[ncur]
            /\ npc' = "read"
            /\ UNCHANGED <<ncur, cleaned_code, nfailed>>
    /\ UNCHANGED <<nfiles, norig, nvisited, ncalled>>
    /\ UNCHANGED <<pipeVars, imgVars, mergeVars, callVars, pathVars>>

\* process_file, lines 47-50: remove_comments, splitlines, clean_gadget
Transform(raises, renames) ==
    /\ npc = "read"
    /\ IF raises
       THEN Except
       ELSE /\ ncode' = remove_comments(ncode)
            /\ cleaned_code' =
                  clean_gadget(splitlines(remove_comments(ncode)), renames)
            /\ npc' = "cleaned"
            /\ UNCHANGED <<ncur, nfailed>>
    /\ UNCHANGED <<nfiles, norig, nvisited, ncalled>>
    /\ UNCHANGED <<pipeVars, imgVars, mergeVars, callVars, pathVars>>

\* process_file, line 52: the file is opened "w", which truncates it
OpenForWriting(raises) ==
    /\ npc = "cleaned"
    /\ IF raises
       THEN Except /\ nfiles' = nfiles
       ELSE /\ nfiles' = [nfiles EXCEPT ![ncur] = <<>>]
            /\ npc' = "opened"
            /\ UNCHANGED <<ncur, ncode, cleaned_code, nfailed>>
    /\ UNCHANGED <<norig, nvisited, ncalled>>
    /\ UNCHANGED <<pipeVars, imgVars, mergeVars, callVars, pathVars>>

\* process_file, lines 53-55: the joined lines are written, the file closed
WriteFile(raises) ==
    /\ npc = "opened"
    /\ IF raises
       THEN Except /\ nfiles' = nfiles
       ELSE /\ nfiles' = [nfiles EXCEPT ![ncur] = join(cleaned_code)]
            /\ npc' = "loop"
            /\ ncur' = NoPath
            /\ ncode' = <<>>
            /\ cleaned_code' = <<>>
            /\ nfailed' = nfailed
    /\ UNCHANGED <<norig, nvisited, ncalled>>
    /\ UNCHANGED <<pipeVars, imgVars, mergeVars, callVars, pathVars>>

NormNext ==
    \/ \E e \in rglob("in") : NormalizeSkip(e)
    \/ \E e \in rglob("in") : NormalizeCall(e)
    \/ \E raises \in BOOLEAN : ReadFile(raises)
    \/ \E raises \in BOOLEAN, renames \in BOOLEAN : Transform(raises, renames)
    \/ \E raises \in BOOLEAN : OpenForWriting(raises)
    \/ \E raises \in BOOLEAN : WriteFile(raises)

----------------------------------------------------------------------------
(* ImageGeneration.py: graphs, labels, centralities, embedding *)

\* node labels as pydot hands them over, quotes included
LabelPlain ==
    <<"\"", "(", "M", ",", "f", ")", "\"">>

LabelStatic ==
    <<"\"", "(", "M", ",", "s", "t", "a", "t", "i", "c", " ", "v", "o",
      "i", "d", " ", "f", ")", "\"">>

LabelLines ==
    <<"\"", "(", "C", ",", "x", "\\", "n", "y", ")", "\"">>

LabelNoSep ==
    <<"\"", "(", "M", " ", "f", ")", "\"">>

Comma == <<",">>
BackslashN == <<"\\", "n">>
StaticVoid == <<"s", "t", "a", "t", "i", "c", " ", "v", "o", "i", "d">>
Void == <<"v", "o", "i", "d">>

\* a value, or the exception that was raised instead
Value(v) == [ok |-> TRUE, val |-> v]
Raised == [ok |-> FALSE, val |-> <<>>]

\* extract_code_from_label: label.index(",") raises ValueError without a
\* comma; the slice ends two characters before the end of the label
extract_code_from_label(label) ==
    IF Find(label, Comma) = 0 THEN Raised
    ELSE LET index == Find(label, Comma) - 1
             code == SplitFirst(Slice(label, index + 1, -2), BackslashN)
         IN Value(replace(code, StaticVoid, Void, -1))

\* dimension of the embedding vectors
EmbedDim == 2

\* sentence_embedding: model.embed_sentence(sentence)[0], a fixed function of
\* the sentence
sentence_embedding(sentence) ==
    [k \in 1..EmbedDim |->
        IF k = 1 THEN Len(sentence) + 1 ELSE Count(sentence, <<"v">>) + 2]

\* centrality * line_vec, elementwise
Scale(centrality, line_vec) ==
    [k \in DOMAIN line_vec |-> centrality * line_vec[k]]

\* the scores networkx returns, held fixed: one per measure and node
Score(measure, v) ==
    IF measure = "degree" THEN v + 1
    ELSE IF measure = "closeness" THEN 2 * v + 3
    ELSE 5 * v + 7

\* calculate_centralities with the dict built closeness first
CalculateCentralitiesReordered(graph) ==
    [m \in 1..3 |->
        [measure |-> <<"closeness", "degree", "katz">>[m],
         scores |-> [v \in Range(graph.nodes) |->
                        Score(<<"closeness", "degree", "katz">>[m], v)]]]

\* calculate_centralities: a dict keyed degree, closeness, katz in that
\* order, each value a dict over every node of the graph
calculate_centralities(graph) ==
    [m \in 1..3 |->
        [measure |-> <<"degree", "closeness", "katz">>[m],
         scores |-> [v \in Range(graph.nodes) |->
                        Score(<<"degree", "closeness", "katz">>[m], v)]]]

\* nx.get_node_attributes(graph, "label"): the nodes that carry a label, in
\* the graph's node order
LabelKeys(graph) ==
    LET F[i \in 0..Len(graph.nodes)] ==
            IF i = 0 THEN <<>>
            ELSE IF graph.nodes[i] \in DOMAIN graph.label
                 THEN Append(F[i - 1], graph.nodes[i])
                 ELSE F[i - 1]
    IN F[Len(graph.nodes)]

\* generate_channels, lines 61-67: the loop over labels_dict.items() from
\* its i-th item on, channels holding what was appended so far
RECURSIVE ChannelLoop(_, _, _, _, _)
ChannelLoop(graph, centralities, keys, i, channels) ==
    IF i > Len(keys) THEN Value(channels)
    ELSE LET label == keys[i]
             code == extract_code_from_label(graph.label[label])
         IN IF ~code.ok \/ ~graph.embedOk THEN Raised
            ELSE LET line_vec == sentence_embedding(code.val)
                 IN ChannelLoop(graph, centralities, keys, i + 1,
                        [m \in DOMAIN centralities |->
                            Append(channels[m],
                                   Scale(centralities[m].scores[label],
                                         line_vec))])

\* generate_channels: tuple(channels.values()), one channel per key of
\* centralities, in the order of the keys
generate_channels(graph, centralities) ==
    ChannelLoop(graph, centralities, LabelKeys(graph), 1,
                [m \in DOMAIN centralities |-> <<>>])

\* image_generation returns None
NoChannels == [kind |-> "none", val |-> <<>>]

\* image_generation without its try / except: the exception leaves the call
ImageGenerationNoCatch(graph) ==
    IF ~graph.parses THEN [kind |-> "raise", val |-> <<>>]
    ELSE LET r == generate_channels(graph, calculate_centralities(graph))
         IN IF r.ok THEN [kind |-> "value", val |-> r.val]
            ELSE [kind |-> "raise", val |-> <<>>]

\* image_generation: the channels, or None when anything raised
image_generation(graph) ==
    IF ~graph.parses THEN NoChannels
    ELSE LET r == generate_channels(graph, calculate_centralities(graph))
         IN IF r.ok THEN [kind |-> "value", val |-> r.val] ELSE NoChannels

\* the graphs a .dot file of the input directory may hold
Graph(parses, nodes, label, embedOk) ==
    [parses |-> parses, nodes |-> nodes, label |-> label, embedOk |-> embedOk]

GraphEmpty == Graph(TRUE, <<>>, <<>>, TRUE)
GraphLabelled ==
    Graph(TRUE, <<2, 1>>, (1 :> LabelStatic) @@ (2 :> LabelPlain), TRUE)
GraphEdgeOnlyNode ==
    Graph(TRUE, <<1, 3, 2>>, (1 :> LabelLines) @@ (2 :> LabelPlain), TRUE)
GraphNoSep ==
    Graph(TRUE, <<1, 2>>, (1 :> LabelPlain) @@ (2 :> LabelNoSep), TRUE)
GraphUnparsable == Graph(FALSE, <<>>, <<>>, TRUE)
GraphEmbedFails == Graph(TRUE, <<1>>, (1 :> LabelPlain), FALSE)

GraphSamples == {GraphEmpty, GraphLabelled, GraphEdgeOnlyNode, GraphNoSep,
                 GraphUnparsable, GraphEmbedFails}

----------------------------------------------------------------------------
(* ImageGeneration.py: main, process_files, write_to_pkl *)

\* invocations of ImageGeneration.py in one behaviour
MaxImageRuns == 2

\* stems of the *.dot files of the input directory
DotStems == {"g1", "g2", "g3"}

NoFile == [exists |-> FALSE, channels |-> <<>>]

ImgIdle ==
    /\ pkl = [d \in DotStems |-> NoFile]
    /\ imain = "idle"
    /\ iruns = 0
    /\ model = "unloaded"
    /\ existing_files = {}
    /\ itask = [d \in DotStems |-> "idle"]
    /\ raised = FALSE
    /\ attempted = {}
    /\ ioFailed = FALSE
    /\ loads = 0
    /\ releases = 0

ImgInit ==
    /\ dots \in [DotStems -> GraphSamples]
    /\ ImgIdle

\* main, lines 116-128: the output directory is made, the model loaded
ImageMain ==
    /\ imain = "idle"
    /\ iruns < MaxImageRuns
    /\ iruns' = iruns + 1
    /\ model' = "loaded"
    /\ imain' = "loaded"
    /\ raised' = FALSE
    /\ attempted' = {}
    /\ ioFailed' = FALSE
    /\ loads' = 1
    /\ releases' = 0
    /\ UNCHANGED <<dots, pkl, existing_files, itask>>
    /\ UNCHANGED <<pipeVars, mergeVars, auxVars>>

\* main, lines 127-128: load_model raises (no model file at the path); the
\* exception leaves main before the try block is entered
LoadModelRaises ==
    /\ imain = "idle"
    /\ iruns < MaxImageRuns
    /\ iruns' = iruns + 1
    /\ model' = "unloaded"
    /\ raised' = FALSE
    /\ attempted' = {}
    /\ ioFailed' = FALSE
    /\ loads' = 0
    /\ releases' = 0
    /\ UNCHANGED <<dots, pkl, imain, existing_files, itask>>
    /\ UNCHANGED <<pipeVars, mergeVars, auxVars>>

\* process_files, lines 101-113: both globs are taken, every .dot file is
\* handed to the pool
process_files ==
    /\ imain = "loaded"
    /\ existing_files' = {d \in DotStems : pkl[d].exists}
    /\ itask' = [d \in DotStems |-> "todo"]
    /\ imain' = "mapping"
    /\ UNCHANGED <<dots, pkl, iruns, model, raised, attempted, ioFailed,
                   loads, releases>>
    /\ UNCHANGED <<pipeVars, mergeVars, auxVars>>

\* write_to_pkl, lines 85-87: the stem had a .pkl when the run started
WriteToPklSkip(d) ==
    /\ imain = "mapping"
    /\ itask[d] = "todo"
    /\ d \in existing_files
    /\ itask' = [itask EXCEPT ![d] = "done"]
    /\ UNCHANGED <<dots, pkl, imain, iruns, model, existing_files, raised,
                   attempted, ioFailed, loads, releases>>
    /\ UNCHANGED <<pipeVars, mergeVars, auxVars>>

\* what write_to_pkl does with the result of image_generation: nothing for
\* None, else the tuple is pickled to <out>/<stem>.pkl; an exception of
\* either call leaves the worker
write_to_pkl(d, channels, oserror) ==
    IF channels.kind = "raise"
    THEN /\ raised' = TRUE
         /\ UNCHANGED <<pkl, ioFailed>>
    ELSE IF channels.kind = "none"
    THEN UNCHANGED <<pkl, raised, ioFailed>>
    ELSE IF oserror
    THEN /\ raised' = TRUE
         /\ ioFailed' = TRUE
         /\ pkl' = pkl
    ELSE /\ pkl' = [pkl EXCEPT ![d] =
                       [exists |-> TRUE, channels |-> channels.val]]
         /\ UNCHANGED <<raised, ioFailed>>

\* write_to_pkl, lines 89-96, for a stem without a .pkl
WriteToPkl(d, oserror) ==
    /\ imain = "mapping"
    /\ itask[d] = "todo"
    /\ d \notin existing_files
    /\ attempted' = attempted \cup {d}
    /\ write_to_pkl(d, image_generation(dots[d]), oserror)
    /\ itask' = [itask EXCEPT ![d] = "done"]
    /\ UNCHANGED <<dots, imain, iruns, model, existing_files, loads,
                   releases>>
    /\ UNCHANGED <<pipeVars, mergeVars, auxVars>>

\* process_files called without try / finally: an exception of pool.map
\* leaves main at once
PoolReturnNoFinally ==
    /\ imain = "mapping"
    /\ raised \/ \A d \in DotStems : itask[d] = "done"
    /\ imain' = IF raised THEN "idle" ELSE "finally"
    /\ UNCHANGED <<dots, pkl, iruns, model, existing_files, itask, raised,
                   attempted, ioFailed, loads, releases>>
    /\ UNCHANGED <<pipeVars, mergeVars, auxVars>>

\* process_files, lines 104-113: pool.map returns when every item is done,
\* or raises the first exception of a worker; the with block ends the pool
PoolReturn ==
    /\ imain = "mapping"
    /\ raised \/ \A d \in DotStems : itask[d] = "done"
    /\ imain' = "finally"
    /\ UNCHANGED <<dots, pkl, iruns, model, existing_files, itask, raised,
                   attempted, ioFailed, loads, releases>>
    /\ UNCHANGED <<pipeVars, mergeVars, auxVars>>

\* main, lines 132-133: the finally block releases the model
ReleaseModel ==
    /\ imain = "finally"
    /\ model' = "released"
    /\ releases' = releases + 1
    /\ imain' = "idle"
    /\ UNCHANGED <<dots, pkl, iruns, existing_files, itask, raised,
                   attempted, ioFailed, loads>>
    /\ UNCHANGED <<pipeVars, mergeVars, auxVars>>

ImgNext ==
    \/ ImageMain
    \/ LoadModelRaises
    \/ process_files
    \/ \E d \in DotStems : WriteToPklSkip(d)
    \/ \E d \in DotStems, oserror \in BOOLEAN : WriteToPkl(d, oserror)
    \/ PoolReturn
    \/ ReleaseModel

----------------------------------------------------------------------------
(* joern_graph_gen.py: joern_export, the merge of the PDG fragments *)

\* fragment files joern-export may leave in <outdir>/<stem>
MaxFrags == 3

DigraphG == <<"d", "i", "g", "r", "a", "p", "h", " ", "G", " ", "{">>
RBrace == <<"}">>
SubgraphCluster ==
    <<"s", "u", "b", "g", "r", "a", "p", "h", " ", "c", "l", "u", "s", "t",
      "e", "r", "_">>
Digraph == <<"d", "i", "g", "r", "a", "p", "h">>
Subgraph == <<"s", "u", "b", "g", "r", "a", "p", "h">>

\* fragments: the header joern_export looks for, a header naming the
\* function, an empty body, a body of two statements
FragG ==
    <<"d", "i", "g", "r", "a", "p", "h", " ", "G", " ", "{", NL, "a", NL,
      "}", NL>>
FragNamed ==
    <<"d", "i", "g", "r", "a", "p", "h", " ", "\"", "f", "\"", " ", "{",
      NL, "b", NL, "}", NL>>
FragEmpty ==
    <<"d", "i", "g", "r", "a", "p", "h", " ", "G", " ", "{", NL, "}">>
FragTwo ==
    <<"d", "i", "g", "r", "a", "p", "h", " ", "G", " ", "{", NL, "c", NL,
      "d", NL, "}", NL>>

FragSamples == {FragG, FragNamed, FragEmpty, FragTwo}

\* pdg.stem of the i-th file of the glob: 0-pdg, 1-pdg, ...
FragStem(i) ==
    <<(<<"0", "1", "2", "3", "4", "5", "6", "7", "8", "9">>)[i]>>
    \o <<"-", "p", "d", "g">>

MergeIdle ==
    /\ outfile = <<>>
    /\ mpos = -1

MergeInit ==
    /\ pdg_files \in UNION {[1..k -> FragSamples] : k \in 1..MaxFrags}
    /\ MergeIdle

\* joern_export, lines 192-193: the fragment without its wrapper
StripWrapper(content) ==
    RSplitFirst(replace(content, DigraphG, <<>>, 1), RBrace)

\* joern_export, lines 185-186: open "w", the top-level header
MergeBegin ==
    /\ mpos = -1
    /\ outfile' = DigraphG \o <<NL>>
    /\ mpos' = 0
    /\ UNCHANGED pdg_files
    /\ UNCHANGED <<pipeVars, imgVars, auxVars>>

\* joern_export, lines 187-196: the next fragment as a named subgraph
MergeFragment ==
    /\ mpos \in 0..(Len(pdg_files) - 1)
    /\ outfile' = outfile
                  \o SubgraphCluster \o FragStem(mpos + 1) \o <<" ", "{", NL>>
                  \o StripWrapper(pdg_files[mpos + 1])
                  \o <<NL, "}", NL>>
    /\ mpos' = mpos + 1
    /\ UNCHANGED pdg_files
    /\ UNCHANGED <<pipeVars, imgVars, auxVars>>

\* joern_export, line 197 and the close of the with block
MergeEnd ==
    /\ mpos = Len(pdg_files)
    /\ outfile' = outfile \o RBrace
    /\ mpos' = Len(pdg_files) + 1
    /\ UNCHANGED pdg_files
    /\ UNCHANGED <<pipeVars, imgVars, auxVars>>

MergeNext == MergeBegin \/ MergeFragment \/ MergeEnd

----------------------------------------------------------------------------
(* Specifications *)

vars == <<pipeVars, imgVars, mergeVars, auxVars>>

AuxIdle == CallIdle /\ PathIdle /\ NormIdle

\* the parse / export orchestration
Init ==
    /\ PipeInit
    /\ dots = [d \in DotStems |-> GraphEmpty]
    /\ ImgIdle
    /\ pdg_files = <<FragG>>
    /\ MergeIdle
    /\ AuxIdle

Next == PipeNext

Spec == Init /\ [][Next]_vars

\* the pdg export alone, run on the output of a finished parse: every stem
\* has its .bin file and its line in parse_res.txt
InitExport ==
    /\ run = NoRun
    /\ runs = 0
    /\ kills = 0
    /\ pc = [s \in Stems |-> "idle"]
    /\ offset = [s \in Stems |-> 0]
    /\ ret = [s \in Stems |-> FALSE]
    /\ parse_res = RecordLine(StemA) \o RecordLine(StemB)
    /\ export_res = <<>>
    /\ bin = [s \in Stems |-> "complete"]
    /\ outp = [s \in Stems |-> "absent"]
    /\ merged = [s \in Stems |-> "absent"]
    /\ json = [s \in Stems |-> "absent"]
    /\ atStart = {}
    /\ invoked = {}
    /\ failedNow = {}
    /\ failedPrev = [st \in Stages |-> {}]
    /\ work = FALSE
    /\ prev = NoPrev
    /\ toolOk = [st \in Stages |-> IF st = "parse" THEN Stems ELSE {}]
    /\ dots = [d \in DotStems |-> GraphEmpty]
    /\ ImgIdle
    /\ pdg_files = <<FragG>>
    /\ MergeIdle
    /\ AuxIdle

NextExport ==
    \/ Main("export", "pdg", TRUE)
    \/ \E s \in Stems : ProcessFileSkip(s)
    \/ \E s \in Stems : JoernExportInvoke(s)
    \/ \E s \in Stems, exit \in Exits, stdout \in Stdouts,
          effect \in {"frags", "emptydir", "file", "keep"} :
          JoernExportPdgExit(s, exit, stdout, effect)
    \/ \E s \in Stems : MergeOpen(s)
    \/ \E s \in Stems, ioerror \in BOOLEAN : MergeWrite(s, ioerror)
    \/ \E s \in Stems : Rmtree(s)
    \/ \E s \in Stems : ProcessFileWrite(s)
    \/ PoolDone
    \/ Kill

SpecExport == InitExport /\ [][NextExport]_vars

\* feature extraction
InitImage ==
    /\ PipeInit
    /\ ImgInit
    /\ pdg_files = <<FragG>>
    /\ MergeIdle
    /\ AuxIdle

NextImage == ImgNext

SpecImage == InitImage /\ [][NextImage]_vars

\* the merge of one stem's fragments
InitMerge ==
    /\ PipeInit
    /\ dots = [d \in DotStems |-> GraphEmpty]
    /\ ImgIdle
    /\ MergeInit
    /\ AuxIdle

NextMerge == MergeNext

SpecMerge == InitMerge /\ [][NextMerge]_vars

\* one export call
InitCall ==
    /\ PipeInit
    /\ dots = [d \in DotStems |-> GraphEmpty]
    /\ ImgIdle
    /\ pdg_files = <<FragG>>
    /\ MergeIdle
    /\ CallInit
    /\ PathIdle
    /\ NormIdle

NextCall == CallNext

SpecCall == InitCall /\ [][NextCall]_vars

\* the paths of two source files through the stages
InitPaths ==
    /\ PipeInit
    /\ dots = [d \in DotStems |-> GraphEmpty]
    /\ ImgIdle
    /\ pdg_files = <<FragG>>
    /\ MergeIdle
    /\ CallIdle
    /\ PathInit
    /\ NormIdle

NextPaths == PathNext

SpecPaths == InitPaths /\ [][NextPaths]_vars

\* the normalizer
InitNorm ==
    /\ PipeInit
    /\ dots = [d \in DotStems |-> GraphEmpty]
    /\ ImgIdle
    /\ pdg_files = <<FragG>>
    /\ MergeIdle
    /\ CallIdle
    /\ PathIdle
    /\ NormInit

NextNorm == NormNext

SpecNorm == InitNorm /\ [][NextNorm]_vars

----------------------------------------------------------------------------
(* Claims about the parse / export orchestration, checked under Spec *)

\* C1 (as claimed): a stem whose stage artifact was on disk when the run
\* started has no external tool invoked for it in that run, whether or not
\* it is in the record.
C1_SkipOnRerun ==
    run.type # "none" => \A s \in atStart : s \notin invoked

\* C2 (as claimed, in its most favourable case: the first run finished and
\* every item of it returned True): a second run of the same stage and
\* representation over the same input does no work - no tool invoked, no
\* file written, the record file unchanged.
C2_Idempotence ==
    (/\ run.type # "none"
     /\ prev.type = run.type
     /\ prev.repr = run.repr
     /\ prev.clean)
    => ~work

\* C3 (as claimed): a line once in a record file stays in it, whatever the
\* interleaving of the pool workers.
C3_RecordNeverLoses ==
    [][\A st \in Stages :
          \A l \in processed_files(st) : l \in processed_files(st)']_vars

\* the lines of a record are pairwise distinct
NoDuplicateLines(text) ==
    LET ls == splitlines(text)
    IN \A i, j \in DOMAIN ls : ls[i] = ls[j] => i = j

\* C4 (as claimed): a stem is in a stage's record only if the stage's tool
\* completed successfully for it, and no stem is recorded twice.
C4_RecordedOnlyOnSuccess ==
    \A st \in Stages :
       /\ \A s \in Stems : s \in processed_files(st) => s \in toolOk[st]
       /\ NoDuplicateLines(Record(st))

\* an export artifact of either representation
ExportArtifact(s) ==
    merged[s] # "absent" \/ outp[s] = "file" \/ json[s] # "absent"

\* C5 (as claimed, in its most favourable case: no run was killed, no tool
\* exited non-zero in this run or in the last finished run of either stage):
\* when no worker is processing a stem, a stem is in a stage's record
\* exactly when its artifact of that stage is on disk.
C5_ArtifactRecordAgree ==
    (Busy = {} /\ kills = 0 /\ failedNow = {}
       /\ \A st \in Stages : failedPrev[st] = {})
    => \A s \in Stems :
          /\ s \in processed_files("parse") <=> bin[s] # "absent"
          /\ s \in processed_files("export") <=> ExportArtifact(s)

\* C6 (as claimed): a stem whose tool exited non-zero is absent from the
\* record, and the next invocation of that stage invokes the tool for it
\* again.
C6_ToolFailureSemantics ==
    run.type # "none" =>
       /\ \A s \in failedNow : s \notin processed_files(run.type)
       /\ run.script =>
             \A s \in failedPrev[run.type] : pc[s] = "done" => s \in invoked

----------------------------------------------------------------------------
(* Claims about feature extraction, checked under SpecImage *)

\* a .dot file of one of the three malformed kinds: the graph does not
\* parse, a node label has no comma, embedding its snippets fails
Malformed(graph) ==
    \/ ~graph.parses
    \/ \E v \in DOMAIN graph.label : Find(graph.label[v], Comma) = 0
    \/ ~graph.embedOk

MalformedDots == {d \in DotStems : Malformed(dots[d])}

Pickled == {d \in DotStems : pkl[d].exists}

\* C7: when a run that found no .pkl and whose batch holds exactly one
\* malformed graph has left the pool (no .pkl write having failed), no
\* exception has escaped, and exactly the well-formed stems have a .pkl;
\* and every run that leaves the pool without an exception has attempted
\* every malformed stem, which never has a .pkl.
C7_FailureIsolation ==
    /\ (/\ imain = "finally"
        /\ existing_files = {}
        /\ ~ioFailed
        /\ Cardinality(MalformedDots) = 1)
       => (~raised /\ Pickled = DotStems \ MalformedDots)
    /\ (imain = "finally" /\ ~raised)
       => (MalformedDots \subseteq attempted /\ MalformedDots \cap Pickled = {})

\* C7 witness: a second run over a batch of three with one malformed graph
\* has left the pool, the two well-formed stems pickled, the malformed one
\* attempted again.
C7_Witness ==
    /\ iruns = 2
    /\ imain = "finally"
    /\ ~raised
    /\ Cardinality(MalformedDots) = 1
    /\ Cardinality(existing_files) = 2
    /\ attempted = MalformedDots
    /\ Pickled = DotStems \ MalformedDots

\* C8 (as claimed): every pickled tensor has 3 channels, each as long as the
\* graph has nodes, nodes without a label included.
C8_TensorShape ==
    \A d \in DotStems :
       pkl[d].exists =>
          /\ Len(pkl[d].channels) = 3
          /\ \A m \in 1..3 :
                Len(pkl[d].channels[m]) = Len(dots[d].nodes)

\* the labelled nodes of a graph in the order of its node-label map
LabelledInOrder(graph) ==
    SelectSeq(graph.nodes, LAMBDA v : v \in DOMAIN graph.label)

\* C9: every pickled tensor has its channels in the order degree, closeness,
\* katz; each channel lists the labelled nodes in the order of the label
\* map, and its entry for node v is the measure's score of v times the
\* embedding of v's snippet, elementwise.
C9_FusionCorrect ==
    \A d \in DotStems :
       pkl[d].exists =>
          LET graph == dots[d]
              keys == LabelledInOrder(graph)
              channels == pkl[d].channels
          IN /\ Len(channels) = 3
             /\ \A m \in 1..3 :
                   /\ Len(channels[m]) = Len(keys)
                   /\ \A i \in 1..Len(keys) :
                         \A k \in 1..EmbedDim :
                            channels[m][i][k] =
                               Score(<<"degree", "closeness", "katz">>[m],
                                     keys[i])
                               * sentence_embedding(extract_code_from_label(
                                    graph.label[keys[i]]).val)[k]

\* C9 witness: tensors are pickled for a graph of two labelled nodes listed
\* out of numeric order and for a graph with an unlabelled node between two
\* labelled ones.
C9_Witness ==
    \E d, e \in DotStems :
       /\ dots[d] = GraphLabelled /\ pkl[d].exists
       /\ dots[e] = GraphEdgeOnlyNode /\ pkl[e].exists
       /\ Len(pkl[d].channels[1]) = 2

\* a step that processes an item: its write_to_pkl call runs
ItemStep == \E d \in DotStems : itask[d] = "todo" /\ itask'[d] = "done"

\* C15: in an execution whose load succeeds, an item is processed only while
\* the model has been loaded once and not released; while main is between
\* the load and the release the counts are one load and no release; and when
\* main is left, after a batch that completed or one that raised, they are
\* one load and one release.
C15_ModelLifecycle ==
    [][/\ ItemStep => (model = "loaded" /\ loads = 1 /\ releases = 0)
       /\ imain' \in {"loaded", "mapping", "finally"} =>
             (model' = "loaded" /\ loads' = 1 /\ releases' = 0)
       /\ (imain # "idle" /\ imain' = "idle") =>
             (model' = "released" /\ loads' = 1 /\ releases' = 1
              /\ imain = "finally")]_vars

\* C15 witness: main has been left after a batch in which an item was
\* processed and an exception escaped the pool, the model released once.
C15_Witness ==
    /\ imain = "idle"
    /\ raised
    /\ attempted # {}
    /\ loads = 1
    /\ releases = 1
    /\ model = "released"

----------------------------------------------------------------------------
(* Claims about the merge, checked under SpecMerge *)

\* brace depth after the first i characters
Depth(text, i) ==
    Cardinality({j \in 1..i : text[j] = "{"})
    - Cardinality({j \in 1..i : text[j] = "}"})

Balanced(text) ==
    /\ \A i \in 0..Len(text) : Depth(text, i) >= 0
    /\ Depth(text, Len(text)) = 0

\* C10 (as claimed): the closed merged file holds one graph header, one
\* named subgraph per fragment, named by the fragment's stem, and balanced
\* braces, whatever the header of the fragments.
C10_MergeWellFormed ==
    mpos = Len(pdg_files) + 1 =>
       /\ Count(outfile, Digraph) = 1
       /\ Count(outfile, Subgraph) = Len(pdg_files)
       /\ \A i \in 1..Len(pdg_files) :
             Count(outfile, SubgraphCluster \o FragStem(i) \o <<" ">>) = 1
       /\ Balanced(outfile)

----------------------------------------------------------------------------
(* Claims about the export of one stem, checked under Spec *)

\* C11 (as claimed): when the merge of a stem's fragments raises, the stem is
\* not in export_res, the fragment directory is still there with its
\* fragments, and no merged graph file of the stem is left on disk.
C11_MergeFailure ==
    [][\A s \in Stems :
          (pc[s] = "merging" /\ pc'[s] = "ret") =>
             /\ ~ret'[s]
             /\ s \notin processed_files("export")'
             /\ outp'[s] = "frags"
             /\ merged'[s] = "absent"]_vars

\* C14 (as claimed, for the two artifacts of this program): once a stem's
\* .bin file or merged graph file is completely written, no step of this or
\* a later run changes or removes it.
C14_WriteOnce ==
    [][\A s \in Stems :
          /\ bin[s] = "complete" => bin'[s] = "complete"
          /\ merged[s] = "complete" => merged'[s] = "complete"]_vars

\* the run is killed in this step
KillStep == run.type # "none" /\ kills' = kills + 1

Decisive(t) == t.script /\ t.effect # "emptydir" /\ ~t.ioerror

\* C12 (as claimed): after a call that ran the tool, a lineinfo_json run with
\* non-empty stderr has not put the stem in the record, and a run of either
\* representation that exits zero with empty stderr has, whatever its stdout.
C12_ExportBySignals ==
    (cstep = "done" /\ Decisive(tool)) =>
       /\ (tool.repr = "lineinfo_json" /\ tool.stderr # "") =>
             StemA \notin Range(splitlines(crec))
       /\ (tool.exit = "zero" /\ tool.stderr = "") =>
             StemA \in Range(splitlines(crec))

----------------------------------------------------------------------------
(* Claims about artifact paths, checked under SpecPaths *)

\* the artifact names derived so far for unit i
Derived(i) == {f \in {"bin", "out", "merged", "json", "pkl"} :
                  paths[i][f] # <<>>}

\* the key of an artifact name: the name itself for <outdir>/<stem>, the
\* name without its extension otherwise
KeyOf(f, name) == IF f = "out" THEN name ELSE path_stem(name)

\* C13 (as claimed): every artifact derived for a source file is keyed by the
\* file's stem, and two files with distinct stems have distinct artifact
\* names in every stage, also when the stems contain a dot.
C13_StemIdentity ==
    /\ \A i \in 1..2 : \A f \in Derived(i) :
          KeyOf(f, paths[i][f]) = path_stem(units[i])
    /\ \A f \in Derived(1) \cap Derived(2) :
          path_stem(units[1]) # path_stem(units[2]) =>
             paths[1][f] # paths[2][f]

----------------------------------------------------------------------------
(* Claims about the normalizer, checked under SpecNorm *)

Failed == {f \in RegularFiles : nfailed[f] # "no"}

\* C16: no exception of a file's read, transform or write leaves
\* process_file, and when the loop of normalize has taken every entry,
\* process_file has been called for every regular file below the input
\* directory, at every depth and whatever its extension.
C16_NormalizerIsolation ==
    /\ npc # "raised"
    /\ (npc = "loop" /\ nvisited = rglob("in")) => ncalled = RegularFiles

\* C16 witness: the walk has ended; the read of one file, the transform of
\* another and the write of the third raised.
C16_Witness ==
    /\ npc = "loop"
    /\ nvisited = rglob("in")
    /\ ncalled = RegularFiles
    /\ {nfailed[f] : f \in RegularFiles} = {"try", "read", "opened"}

\* C18: a file whose read or transform raised holds what it held before the
\* walk, and the file being processed holds it until the cleaned lines are
\* there, that is up to the open for writing.
C18_UnchangedUntilCleaned ==
    /\ \A f \in RegularFiles :
          nfailed[f] \in {"try", "read"} => nfiles[f] = norig[f]
    /\ (ncur # NoPath /\ npc \in {"try", "read", "cleaned"}) =>
          nfiles[ncur] = norig[ncur]

\* C18 witness: the transform of one file raised and left it as it was,
\* while another file has been rewritten.
C18_Witness ==
    \E f, g \in RegularFiles :
       /\ nfailed[f] = "read"
       /\ nfiles[f] = norig[f]
       /\ nfailed[g] = "no"
       /\ g \in ncalled
       /\ nfiles[g] # norig[g]

=============================================================================
